---- MODULE Spec2Model ----
(***************************************************************************)
(* Document reranking orchestration of n8n-nodes-ollama-reranker.          *)
(*                                                                         *)
(* One rerank request is followed from its entry point (the provider's     *)
(* rerank() or the workflow node's execute()) through rerankDocuments and  *)
(* its three backend paths: prompt scoring over /api/generate with retry   *)
(* and wave batching, the direct /api/rerank call, and the vl-classifier   *)
(* path.  The backend is an adversary: every response is a nondeterministic *)
(* choice.  JavaScript runs every handler to completion, so each action is *)
(* the code between two suspension points (an HTTP response or a timer).   *)
(*                                                                         *)
(* Scores, thresholds and confidences are integers in hundredths: 85       *)
(* stands for 0.85.                                                        *)
(***************************************************************************)
EXTENDS Integers, Sequences, FiniteSets, TLC

(***************************************************************************)
(* Bounds of the model.                                                    *)
(***************************************************************************)
MaxDocs == 2
MaxTopK == 2
MaxBatch == 2
ScoreLevels == 2

\* a retry budget that is one too large
maxRetries_OneMore == 3 + 1

\* scoreDocument: const maxRetries = 3
maxRetries == 3

Min(a, b) == IF a < b THEN a ELSE b
Max(a, b) == IF a > b THEN a ELSE b

\* Relevance values the backend can express, in hundredths.
Scores == {(k * 100) \div ScoreLevels : k \in 0..ScoreLevels}
\* Thresholds of the node: the backend's values and 0.2, the synthetic
\* score of a LOW document without confidence
Thresholds == Scores \cup {20}
TopKs == 0..MaxTopK

\* provider.rerank: if (topK > 100) topK = 100
topKLimit == 100

\* a document count above the limit of topK
ManyDocs == topKLimit + 1
BatchSizes == 1..MaxBatch

\* A /api/generate response: no text at all, or a text whose first numeric
\* token is v/100.  Token 500 stands for the text "5", which the parser
\* rescales.
NoText == -1
Responses == {NoText} \cup Scores \cup {500}

\* Ways an HTTP request can fail.  HTTPnnn carries response.statusCode and a
\* response.body; the others carry neither: AbortError is error.name,
\* ETIMEDOUT and ECONNREFUSED are error.code.
Errors == {"AbortError", "ETIMEDOUT", "ECONNREFUSED",
           "HTTP400", "HTTP401", "HTTP404", "HTTP500"}

statusCode(e) ==
    CASE e = "HTTP400" -> 400
      [] e = "HTTP401" -> 401
      [] e = "HTTP404" -> 404
      [] e = "HTTP500" -> 500
      [] OTHER -> 0

hasBody(e) == statusCode(e) # 0

\* scoreDocument, catch block: error?.response?.statusCode === 404 || ... === 400
isPermanent(e) == statusCode(e) = 404 \/ statusCode(e) = 400

\* transient errors without the test of error.code
isTransient_NoCode(e) == e = "AbortError" \/ statusCode(e) >= 500

\* a transient class that starts at status 400
isTransient_From400(e) == e = "AbortError" \/ e = "ETIMEDOUT" \/ statusCode(e) >= 400

\* scoreDocument, catch block: AbortError, ETIMEDOUT or statusCode >= 500
isTransient(e) == e = "AbortError" \/ e = "ETIMEDOUT" \/ statusCode(e) >= 500

\* a retry on every error while attempts are left
shouldRetry_AnyError(attempt, e) == attempt < maxRetries - 1

\* scoreDocument, catch block: TRUE when the loop continues with another attempt
shouldRetry(attempt, e) ==
    /\ ~isPermanent(e)
    /\ attempt < maxRetries - 1
    /\ isTransient(e)

\* a wait of 100 ms before every retry
backoffDelay_Fixed(attempt) == 100

\* scoreDocument, catch block: setTimeout(resolve, 100 * Math.pow(2, attempt)),
\* in milliseconds
backoffDelay(attempt) == 100 * 2^attempt

\* scoreDocument, after the loop: which NodeApiError is thrown
scoreError(e) ==
    IF e = "AbortError" \/ e = "ETIMEDOUT" THEN "Request timeout"
    ELSE IF hasBody(e) THEN "Ollama API Error"
    ELSE "Ollama reranking request failed"

\* a parser that clamps without rescaling
parseBGEScore_NoRescale(v) == Min(Max(v, 0), 100)

\* parseBGEScore on a numeric token v (hundredths): rescale, then clamp
parseBGEScore(v) ==
    IF v > 100 /\ v <= 1000 THEN v \div 10
    ELSE IF v > 1000 THEN v \div 100
    ELSE Min(Max(v, 0), 100)

\* parseRerankerResponse for the default (BGE family) model
parseRerankerResponse(response) ==
    IF response = NoText THEN 0 ELSE parseBGEScore(response)

\* Model identifiers, by the two substring tests of parseRerankerResponse
Models == {"bge-reranker-v2-m3", "qwen3-reranker", "bge-qwen-merge", "llama3"}
isBGE(model) == model \in {"bge-reranker-v2-m3", "bge-qwen-merge"}
isQwen(model) == model \in {"qwen3-reranker", "bge-qwen-merge"}

\* null, the value of a family parser that found nothing
NoScore == -1000

\* no match of /(\d*\.?\d+)/ in the output
NoToken == -1

\* first numeric token of an output, in hundredths: 0, 0.5, 0.85, 1, 1.5,
\* 8.5, 10, 50, 100, 500
Tokens == {0, 50, 85, 100, 150, 850, 1000, 5000, 10000, 50000}

positiveKeywords == {"relevant", "yes", "high", "strong", "good", "match", "related"}
negativeKeywords == {"irrelevant", "no", "low", "weak", "poor", "unrelated", "different"}

\* words an output is made of; "not relevant" is the two-word phrase
Vocabulary ==
    positiveKeywords \cup negativeKeywords
        \cup {"positive", "negative", "not relevant", "completely"}

\* an output holds at most MaxWords words of the vocabulary, or all the
\* positive keywords, or all the negative ones
MaxWords == 2
WordSets ==
    {w \in SUBSET Vocabulary : Cardinality(w) <= MaxWords}
        \cup {positiveKeywords, negativeKeywords}

\* the keywords that are substrings of a word
substrings(word) ==
    CASE word = "irrelevant" -> {"irrelevant", "relevant"}
      [] word = "unrelated" -> {"unrelated", "related"}
      [] word = "not relevant" -> {"relevant", "no"}
      [] OTHER -> {word}

\* outputLower.includes(kw)
includes(out, kw) == \E word \in out.words : kw \in substrings(word)

\* matches of yesRegex and noRegex, which are anchored at word boundaries
yesMatch(out) ==
    out.words \cap {"yes", "relevant", "positive", "match", "not relevant"} # {}
noMatch(out) ==
    out.words \cap {"no", "irrelevant", "negative", "not relevant"} # {}

\* (output.match(/relevant|yes|match/gi) || []).length, each word once
positiveMatches(out) ==
    Cardinality(out.words \cap {"relevant", "irrelevant", "not relevant", "yes", "match"})

\* A response.response text: its first numeric token, its words, whether
\* it is longer than 100 characters, and whether the first yes match
\* comes before the first no match.  In "not relevant" alone the no match
\* comes first.
Outputs ==
    {out \in [token : {NoToken} \cup Tokens, words : WordSets,
              long : BOOLEAN, yesFirst : BOOLEAN] :
        /\ (out.yesFirst => yesMatch(out) /\ noMatch(out) /\ out.words # {"not relevant"})
        /\ (out.long => out.words # {})}

\* parseBGEScore(output, outputLower)
parseBGE(out) ==
    IF out.token # NoToken THEN parseBGEScore(out.token)
    ELSE IF includes(out, "high") \/ includes(out, "relevant") THEN 80
    ELSE IF includes(out, "low") \/ includes(out, "irrelevant") THEN 20
    ELSE NoScore

parseQwenScore(out) ==
    IF yesMatch(out) /\ ~noMatch(out) THEN
        IF out.long /\ positiveMatches(out) > 1 THEN 95
        ELSE IF out.long THEN 85
        ELSE 75
    ELSE IF noMatch(out) /\ ~yesMatch(out) THEN
        IF includes(out, "completely") THEN 5 ELSE 15
    ELSE IF yesMatch(out) /\ noMatch(out) THEN
        IF out.yesFirst THEN 60 ELSE 40
    ELSE NoScore

parseGenericScore(out) ==
    LET positiveCount == Cardinality({kw \in positiveKeywords : includes(out, kw)})
        negativeCount == Cardinality({kw \in negativeKeywords : includes(out, kw)})
    IN  IF out.token # NoToken /\ out.token <= 100 THEN out.token
        ELSE IF out.token # NoToken /\ out.token <= 1000 THEN out.token \div 10
        ELSE IF out.token # NoToken /\ out.token <= 10000 THEN out.token \div 100
        ELSE IF positiveCount > negativeCount THEN 50 + positiveCount * 10
        ELSE IF negativeCount > positiveCount THEN 50 - negativeCount * 10
        ELSE 50

\* parseRerankerResponse(model, response) on a response with a text;
\* hasText is response?.response being non-empty
parseModelResponse(model, hasText, out) ==
    IF ~hasText THEN 0
    ELSE IF isBGE(model) /\ parseBGE(out) # NoScore THEN parseBGE(out)
    ELSE IF isQwen(model) /\ parseQwenScore(out) # NoScore THEN parseQwenScore(out)
    ELSE parseGenericScore(out)

(***************************************************************************)
(* Array helpers.                                                          *)
(***************************************************************************)
\* an insertion that puts r in front of the elements of equal score
RECURSIVE InsertDesc_Unstable(_, _)
InsertDesc_Unstable(s, r) ==
    IF s = <<>> THEN <<r>>
    ELSE IF Head(s).score > r.score THEN <<Head(s)>> \o InsertDesc_Unstable(Tail(s), r)
    ELSE <<r>> \o s

\* Insert r into the descending sequence s behind every element that does
\* not have a smaller score: equal scores keep their arrival order.
RECURSIVE InsertDesc(_, _)
InsertDesc(s, r) ==
    IF s = <<>> THEN <<r>>
    ELSE IF Head(s).score >= r.score THEN <<Head(s)>> \o InsertDesc(Tail(s), r)
    ELSE <<r>> \o s

\* Array.prototype.sort((a, b) => b.score - a.score): a stable sort
RECURSIVE SortDesc(_)
SortDesc(s) ==
    IF s = <<>> THEN <<>>
    ELSE InsertDesc(SortDesc(SubSeq(s, 1, Len(s) - 1)), s[Len(s)])

\* Array.prototype.slice(0, k) for k >= 0
Slice(s, k) == SubSeq(s, 1, Min(k, Len(s)))

\* a filter with a strict comparison
AtLeast_Strict(s, threshold) == SelectSeq(s, LAMBDA r : r.score > threshold)

\* .filter(r => r.score >= threshold)
AtLeast(s, threshold) == SelectSeq(s, LAMBDA r : r.score >= threshold)

\* .filter(...).sort(...).slice(0, topK) of rerankDocuments and of the
\* synthetic branch of rerankWithVLClassifier
RankPolicy(s, threshold, topK) == Slice(SortDesc(AtLeast(s, threshold)), topK)

(***************************************************************************)
(* State.                                                                  *)
(***************************************************************************)
VARIABLES
    config,         \* the request: entry point, node parameters, query, documents
    apiType,        \* execute(): let apiType, replaced by the detected type
    pc,             \* where the request is suspended
    error,          \* message of the error thrown to the caller, "none" if none
    reqCount,       \* HTTP requests issued so far, per endpoint
    path,           \* backend path taken by rerankDocuments
    task,           \* scoreDocument invocation of each document
    promises,       \* rerankDocuments: indices of the promises of the current wave
    results,        \* rerankDocuments: collected {index, score}
    apiDocs,        \* rerankWithCustomAPI: its documents argument
    classifiedDocs, \* rerankWithVLClassifier: classification of each document
    rerankerDocs,   \* rerankWithVLClassifier: documents left after the complexity filter
    scored,         \* scored documents before threshold, sort and topK
    result,         \* documents returned to the caller
    status,         \* const status = await checkServerStatus(...), the last one
    answered,       \* how the backend settled the last request of each kind
    caller,         \* what the caller asked for: operation, continueOnFail, input items
    itemIndex,      \* execute: index of the input item being processed
    returnData,     \* execute: output entries pushed so far
    compressed,     \* compressDocuments: the documents it returns
    parsed,         \* parseRerankerResponse: its arguments and its value
    probes          \* detectServerType: the probes it has sent, with their timeout

\* state of the callers of rerankDocuments and of the response parser
callerVars == <<caller, itemIndex, returnData, compressed, parsed>>

vars == <<config, apiType, pc, error, reqCount, path, task, promises, results,
          apiDocs, classifiedDocs, rerankerDocs, scored, result, status, answered,
          caller, itemIndex, returnData, compressed, parsed, probes>>

Endpoints == {"generate", "rerank", "classify", "status", "tags"}

NoConf == -1

\* A scoreDocument invocation.  attempt and lastError are its locals;
\* calls counts its httpRequest calls, failures the rejected ones, response
\* is the response it parsed, order the number of documents scored before it.
\* delay is the timeout of the pending setTimeout in ms (0 if none), waited
\* the sum of the timeouts that have elapsed.
idleTask == [st |-> "idle", attempt |-> 0, calls |-> 0, failures |-> 0,
             lastError |-> "none", response |-> NoText, score |-> 0, order |-> 0,
             delay |-> 0, waited |-> 0]

\* scoreDocument up to its first await: attempt 0, request sent
sentTask == [idleTask EXCEPT !.st = "inflight", !.calls = 1]

Range(s) == {s[k] : k \in DOMAIN s}

SeqMap(s, Op(_)) == [k \in DOMAIN s |-> Op(s[k])]

totalRequests == reqCount["generate"] + reqCount["rerank"] + reqCount["classify"]
                 + reqCount["status"] + reqCount["tags"]

\* A document as handed to rerankDocuments by either entry point
\* (processedDocs).  doc is the position in the caller's documents array
\* (the document's identity); originalScore tells whether the document has
\* an _originalScore property, copied from the caller's document.
plainDoc(d) ==
    [doc |-> d, originalScore |-> config.originalScores,
     complexityClass |-> "none", complexityConfidence |-> NoConf]

\* a single wave of all the remaining documents
Wave_All(first) == [k \in 1..(config.n - first) |-> first + k - 1]

\* a wave of twice batchSize documents
Wave_Double(first) ==
    [k \in 1..Min(2 * config.batchSize, config.n - first) |-> first + k - 1]

\* a wave that holds one document more than batchSize
Wave_OneMore(first) ==
    [k \in 1..Min(config.batchSize + 1, config.n - first) |-> first + k - 1]

\* rerankDocuments: the loop body for i = first .. until the await: the wave
\* holds batchSize documents or ends with the last document
Wave(first) == [k \in 1..Min(config.batchSize, config.n - first) |-> first + k - 1]

\* rerankDocuments, return filteredResults.map(...): {...originalDoc}
\* copies every property of documents[result.index], _originalScore
\* included; the assignment under includeOriginalScores rewrites that copy
rerankedDoc(r) ==
    LET originalDoc == plainDoc(r.index)
    IN  [doc |-> originalDoc.doc, originalIndex |-> r.index, rerankScore |-> r.score,
         originalScore |-> originalDoc.originalScore,
         complexityClass |-> "none", complexityConfidence |-> NoConf]

\* rerankWithCustomAPI, .map((result) => ...) over the server's results
customRerankedDoc(docs, r) ==
    [doc |-> docs[r.index + 1].doc, originalIndex |-> r.index,
     rerankScore |-> r.relevance_score,
     originalScore |-> docs[r.index + 1].originalScore,
     complexityClass |-> docs[r.index + 1].complexityClass,
     complexityConfidence |-> docs[r.index + 1].complexityConfidence]

\* rerankWithCustomAPI, response.results.filter(...).map(...): the server's
\* order and length are kept
customResult(docs, serverResults, threshold) ==
    SeqMap(SelectSeq(serverResults, LAMBDA r : r.relevance_score >= threshold),
           LAMBDA r : customRerankedDoc(docs, r))

\* rerankWithCustomAPI, catch block: which NodeApiError is thrown
customError(e) ==
    IF statusCode(e) = 404 THEN "Custom Rerank API endpoint not found"
    ELSE IF hasBody(e) THEN "Custom Rerank API Error"
    ELSE "Custom Rerank API request failed"

\* a server that lists every one of m documents, in input order, with the
\* highest score
listAll(m) == [k \in 1..m |-> [index |-> k - 1, relevance_score |-> 100]]

\* What a server may list in results for m documents: any number of them,
\* each at most once, in any order, with any scores
ServerResults(m) ==
    {r \in UNION {[1..l -> [index : 0..(m - 1), relevance_score : Scores]] : l \in 0..m} :
        \A j, k \in DOMAIN r : j # k => r[j].index # r[k].index}

\* classifiedDocs[k] while document k-1 awaits its classification
pendingClassification ==
    [st |-> "pending", complexity |-> "LOW", confidence |-> NoConf, failed |-> FALSE]

\* Confidences a classifier can report, in hundredths
Confidences == {0, 100}

\* What /api/classify can answer: complexity may be missing ("none")
ClassifyResponses == [complexity : {"none", "LOW", "HIGH"}, confidence : {NoConf} \cup Confidences]

\* What /api/status can answer; ok = FALSE is a failed request
StatusOutcomes == [ok : BOOLEAN, has_classifier : BOOLEAN, has_reranker : BOOLEAN]

\* a status that copies the capability flags of any answer
checkServerStatus_Trusting(outcome) ==
    [status |-> IF outcome.ok THEN "healthy" ELSE "error",
     hasClassifier |-> outcome.has_classifier, hasReranker |-> outcome.has_reranker]

\* status before any call of checkServerStatus
noStatus == [status |-> "none", hasClassifier |-> FALSE, hasReranker |-> FALSE]

\* answered before any request has settled
nothingAnswered ==
    [status |-> "none", classifier |-> "none", tags |-> "none", probe |-> "none",
     rerank |-> "none"]

\* a request that resolves, or rejects
settled(ok) == IF ok THEN "ok" ELSE "failed"

\* a status that always advertises a reranker
checkServerStatus_AssumesReranker(outcome) ==
    [status |-> IF outcome.ok THEN "healthy" ELSE "error",
     hasClassifier |-> outcome.ok /\ outcome.has_classifier, hasReranker |-> TRUE]

\* checkServerStatus: a failure is reported as an error status, never thrown
checkServerStatus(outcome) ==
    IF outcome.ok
    THEN [status |-> "healthy", hasClassifier |-> outcome.has_classifier,
          hasReranker |-> outcome.has_reranker]
    ELSE [status |-> "error", hasClassifier |-> FALSE, hasReranker |-> FALSE]

\* classifyDocumentComplexity, catch block, with complexity HIGH
failedClassification_High ==
    [st |-> "done", complexity |-> "HIGH", confidence |-> 0, failed |-> TRUE]

\* classifyDocumentComplexity, catch block: the default classification
failedClassification ==
    [st |-> "done", complexity |-> "LOW", confidence |-> 0, failed |-> TRUE]

\* a complexity filter that the 'both' strategy does not apply
keptByFilter_FilterOnly(c) ==
    IF config.classificationStrategy = "filter" /\ config.filterComplexity # "both"
    THEN SelectSeq([k \in 1..Len(c) |-> k], LAMBDA k : c[k].complexity = config.filterComplexity)
    ELSE [k \in 1..Len(c) |-> k]

\* rerankWithVLClassifier, step 2: the complexity filter, as positions of
\* classifiedDocs
keptByFilter(c) ==
    IF config.classificationStrategy \in {"filter", "both"} /\ config.filterComplexity # "both"
    THEN SelectSeq([k \in 1..Len(c) |-> k], LAMBDA k : c[k].complexity = config.filterComplexity)
    ELSE [k \in 1..Len(c) |-> k]

\* a copy that never receives the classification
enrichedDoc_NoMetadata(c, k) == plainDoc(k - 1)

\* rerankWithVLClassifier, step 3: the enriched copy of classifiedDocs[k].doc
enrichedDoc(c, k) ==
    IF config.classificationStrategy \in {"metadata", "both"}
    THEN [plainDoc(k - 1) EXCEPT !.complexityClass = c[k].complexity,
                                 !.complexityConfidence = c[k].confidence]
    ELSE plainDoc(k - 1)

\* rerankWithVLClassifier, fallback: scoredDocs[idx], idx counted from 0.
\* _originalIndex is classifiedDocs[idx].index, which is idx.
syntheticDoc(doc, idx) ==
    LET complexityScore == IF doc.complexityClass = "HIGH" THEN 80 ELSE 20
        confidence == IF doc.complexityConfidence = NoConf THEN 0 ELSE doc.complexityConfidence
        confidenceBoost == (confidence * 20) \div 100
    IN  [doc |-> doc.doc, index |-> idx, score |-> complexityScore + confidenceBoost,
         originalScore |-> doc.originalScore,
         complexityClass |-> doc.complexityClass,
         complexityConfidence |-> doc.complexityConfidence]

\* a scored document of the synthetic branch as it is returned: the final
\* .map deletes _originalScore unless includeOriginalScores
vlRerankedDoc(r) ==
    [doc |-> r.doc, originalIndex |-> r.index, rerankScore |-> r.score,
     originalScore |-> IF ~config.includeOriginalScores THEN FALSE ELSE r.originalScore,
     complexityClass |-> r.complexityClass,
     complexityConfidence |-> r.complexityConfidence]

(***************************************************************************)
(* Entry points.                                                           *)
(***************************************************************************)
\* the topK handed to rerankDocuments: provider.rerank clamps it to 100,
\* execute() passes the node parameter as it is
topK ==
    IF config.entry = "provider" /\ config.topK > topKLimit THEN topKLimit
    ELSE config.topK

Fail(msg, rc) ==
    /\ pc' = "failed"
    /\ error' = msg
    /\ reqCount' = rc
    /\ UNCHANGED <<path, task, promises, results, apiDocs, classifiedDocs, rerankerDocs, scored, result>>

ReturnEmpty(rc) ==
    /\ pc' = "done"
    /\ result' = <<>>
    /\ reqCount' = rc
    /\ UNCHANGED <<error, path, task, promises, results, apiDocs, classifiedDocs, rerankerDocs, scored>>

\* classifications started in waves of batchSize documents
classificationPromises_Batched ==
    [k \in 1..Min(config.n, config.batchSize) |-> pendingClassification]

\* rerankWithVLClassifier, step 1: documents.map starts the classification
\* of every document, each call running up to its httpRequest
classificationPromises == [k \in 1..config.n |-> pendingClassification]

\* a dispatch that ignores enableClassification
useClassifier_Always(api) == api = "vl-classifier"

\* rerankDocuments: apiType === 'vl-classifier' && enableClassification,
\* enableClassification being false when absent
useClassifier(api) == api = "vl-classifier" /\ config.enableClassification

\* rerankDocuments up to its first suspension, called with n >= 1 documents
rerankDocuments(api, rc) ==
    IF useClassifier(api) THEN
        \* rerankWithVLClassifier: one POST /api/classify per document
        /\ path' = "vl"
        /\ pc' = "classifying"
        /\ classifiedDocs' = classificationPromises
        /\ reqCount' = [rc EXCEPT !["classify"] = @ + Len(classificationPromises)]
        /\ UNCHANGED <<error, task, promises, results, apiDocs, rerankerDocs, scored, result>>
    ELSE IF api = "custom" THEN
        \* rerankWithCustomAPI: POST /api/rerank
        /\ path' = "direct"
        /\ pc' = "rerank"
        /\ apiDocs' = [k \in 1..config.n |-> plainDoc(k - 1)]
        /\ reqCount' = [rc EXCEPT !["rerank"] = @ + 1]
        /\ UNCHANGED <<error, task, promises, results, classifiedDocs, rerankerDocs, scored, result>>
    ELSE
        \* generate: the first wave of scoreDocument calls
        /\ path' = "generate"
        /\ pc' = "scoring"
        /\ promises' = Wave(0)
        /\ task' = [d \in 0..(config.n - 1) |->
                        IF d \in Range(Wave(0)) THEN sentTask ELSE idleTask]
        /\ reqCount' = [rc EXCEPT !["generate"] = @ + Len(Wave(0))]
        /\ UNCHANGED <<error, results, apiDocs, classifiedDocs, rerankerDocs, scored, result>>

\* execute: const timeout = additionalOptions.timeout ?? 30000, the timeout
\* of the requests of rerankDocuments
timeout == 30000

\* a probe sent with the timeout configured by the caller
probeTimeout_Configured == timeout

\* detectServerType: timeout of each of its requests, in ms
probeTimeout == 5000

\* a request of detectServerType
probe(endpoint) == [endpoint |-> endpoint, timeout |-> probeTimeout]

\* provider.rerank(input).  config.topK is input.topN or the node's topK.
ProviderRerank ==
    /\ pc = "idle"
    /\ config.entry = "provider"
    /\ UNCHANGED <<callerVars, probes, config, apiType, status, answered>>
    /\ IF config.topK < 1 THEN Fail("topN/topK must be at least 1", reqCount)
       ELSE IF config.queryEmpty THEN Fail("Query cannot be empty", reqCount)
       ELSE IF config.n = 0 THEN ReturnEmpty(reqCount)
       ELSE rerankDocuments(apiType, reqCount)

\* execute(), body of the item loop, with the resolved API type
ProcessItem(api, rc) ==
    IF config.queryEmpty THEN Fail("Query cannot be empty", rc)
    ELSE IF config.n = 0 THEN ReturnEmpty(rc)
    ELSE rerankDocuments(api, rc)

\* execute() up to its first suspension, for one input item: 'auto' is
\* resolved before the item loop reads the query and the documents
WorkflowExecute ==
    /\ pc = "idle"
    /\ config.entry = "workflow"
    /\ UNCHANGED <<callerVars, config, apiType, status, answered>>
    /\ probes' = IF apiType = "auto" THEN <<probe("status")>> ELSE probes
    /\ IF apiType = "auto"
       THEN \* detectServerType: GET /api/status
            /\ pc' = "detect_status"
            /\ reqCount' = [reqCount EXCEPT !["status"] = @ + 1]
            /\ UNCHANGED <<error, path, task, promises, results, apiDocs, classifiedDocs,
                           rerankerDocs, scored, result>>
       ELSE ProcessItem(apiType, reqCount)

(***************************************************************************)
(* Generate path: scoreDocument and the batch scheduler.                   *)
(***************************************************************************)
\* scores collected in the order in which the responses arrived, indexed
\* by position in the wave
batchResults_ArrivalOrder(t) ==
    [k \in DOMAIN promises |->
        LET arrived == CHOOSE d \in Range(promises) :
                           Cardinality({j \in Range(promises) : t[j].order < t[d].order}) = k - 1
        IN  [index |-> promises[k], score |-> t[arrived].score]]

\* `await Promise.all(promises)`: the values of the promises in the order of
\* the promises array; each promise carries the index i of its closure
batchResults(t) == SeqMap(promises, LAMBDA d : [index |-> d, score |-> t[d].score])

\* rerankDocuments after `await Promise.all(promises)` of a wave whose
\* tasks t have all resolved: collect, then the next wave or the result
AfterWave(t) ==
    LET results1 == results \o batchResults(t)
        i == promises[Len(promises)]
    IN  /\ results' = results1
        /\ IF i < config.n - 1 THEN
               /\ promises' = Wave(i + 1)
               /\ task' = [d \in DOMAIN t |->
                               IF d \in Range(Wave(i + 1)) THEN sentTask ELSE t[d]]
               /\ reqCount' = [reqCount EXCEPT !["generate"] = @ + Len(Wave(i + 1))]
               /\ UNCHANGED <<pc, scored, result>>
           ELSE
               /\ promises' = <<>>
               /\ task' = t
               /\ scored' = SeqMap(results1, rerankedDoc)
               /\ result' = SeqMap(RankPolicy(results1, config.threshold, topK),
                                   rerankedDoc)
               /\ pc' = "done"
               /\ UNCHANGED reqCount

\* a wave that resumes with its first resolved promise
allResolved_Race(t) == \E j \in Range(promises) : t[j].st = "resolved"

\* `await Promise.all(promises)` resumes when every promise of the wave
\* has resolved
allResolved(t) == \A j \in Range(promises) : t[j].st = "resolved"

\* scoreDocument: `return score` on the response to the current attempt
resolvedTask(t, response, order) ==
    [t EXCEPT !.st = "resolved", !.response = response,
              !.score = parseRerankerResponse(response),
              !.lastError = "none", !.order = order]

\* scoreDocument: the loop's next iteration, a new httpRequest
retriedTask(t) ==
    [t EXCEPT !.st = "inflight", !.attempt = @ + 1, !.calls = @ + 1,
              !.waited = @ + t.delay, !.delay = 0]

\* /api/generate answers document d's request
ScoreResponse(d, response) ==
    /\ d \in DOMAIN task
    /\ task[d].st = "inflight"
    /\ LET scoredBefore == Cardinality({j \in DOMAIN task : task[j].st = "resolved"})
           t == [task EXCEPT ![d] = resolvedTask(@, response, scoredBefore)]
       IN  IF pc = "scoring" /\ allResolved(t)
           THEN AfterWave(t)
           ELSE /\ task' = t
                /\ UNCHANGED <<pc, reqCount, promises, results, scored, result>>
    /\ UNCHANGED <<callerVars, probes, config, apiType, status, answered, error, path, apiDocs,
                   classifiedDocs, rerankerDocs>>

\* document d's request to /api/generate fails with e
ScoreFailure(d, e) ==
    /\ d \in DOMAIN task
    /\ task[d].st = "inflight"
    /\ IF shouldRetry(task[d].attempt, e)
       THEN /\ task' = [task EXCEPT ![d] = [@ EXCEPT !.st = "backoff",
                                                   !.failures = @ + 1,
                                                   !.lastError = e,
                                                   !.delay = backoffDelay(task[d].attempt)]]
            /\ UNCHANGED <<pc, error>>
       ELSE /\ task' = [task EXCEPT ![d] = [@ EXCEPT !.st = "rejected",
                                                   !.failures = @ + 1,
                                                   !.lastError = e]]
            \* Promise.all rejects with the first rejection
            /\ IF pc = "scoring"
               THEN pc' = "failed" /\ error' = scoreError(e)
               ELSE UNCHANGED <<pc, error>>
    /\ UNCHANGED <<callerVars, probes, config, apiType, status, answered, reqCount, path, promises, results,
                   apiDocs, classifiedDocs, rerankerDocs, scored, result>>

\* the backoff timer of document d fires: next attempt
BackoffElapsed(d) ==
    /\ d \in DOMAIN task
    /\ task[d].st = "backoff"
    /\ task' = [task EXCEPT ![d] = retriedTask(@)]
    /\ reqCount' = [reqCount EXCEPT !["generate"] = @ + 1]
    /\ UNCHANGED <<callerVars, probes, config, apiType, status, answered, pc, error, path, promises, results,
                   apiDocs, classifiedDocs, rerankerDocs, scored, result>>

(***************************************************************************)
(* Direct path: rerankWithCustomAPI.                                       *)
(***************************************************************************)
\* /api/rerank answers with a results array whose indices refer to the
\* documents sent
RerankResponse(serverResults) ==
    /\ pc = "rerank"
    /\ \A k \in DOMAIN serverResults : serverResults[k].index < Len(apiDocs)
    /\ pc' = "done"
    /\ scored' = SeqMap(serverResults, LAMBDA r : customRerankedDoc(apiDocs, r))
    /\ result' = customResult(apiDocs, serverResults, config.threshold)
    /\ answered' = [answered EXCEPT !.rerank = "results"]
    /\ UNCHANGED <<callerVars, probes, config, apiType, status, error, reqCount, path, task, promises, results,
                   apiDocs, classifiedDocs, rerankerDocs>>

\* a response without results taken for an empty results array
RerankMalformed_AsEmpty ==
    /\ pc = "rerank"
    /\ pc' = "done"
    /\ result' = <<>>
    /\ answered' = [answered EXCEPT !.rerank = "malformed"]
    /\ UNCHANGED <<callerVars, probes, config, apiType, status, error, reqCount, path, task, promises, results,
                   apiDocs, classifiedDocs, rerankerDocs, scored>>

\* /api/rerank answers without a results field, or with one that is not an
\* array: the NodeApiError thrown in the try block has no response
\* property, so the catch block rethrows it as a failed request
RerankMalformed ==
    /\ pc = "rerank"
    /\ pc' = "failed"
    /\ error' = "Custom Rerank API request failed"
    /\ answered' = [answered EXCEPT !.rerank = "malformed"]
    /\ UNCHANGED <<callerVars, probes, config, apiType, status, reqCount, path, task, promises, results,
                   apiDocs, classifiedDocs, rerankerDocs, scored, result>>

\* a direct-rerank call that is sent again after a transient failure
RerankFailure_Retried(e) ==
    /\ pc = "rerank"
    /\ IF isTransient(e) /\ reqCount["rerank"] < maxRetries
       THEN /\ reqCount' = [reqCount EXCEPT !["rerank"] = @ + 1]
            /\ UNCHANGED <<pc, error, answered>>
       ELSE /\ pc' = "failed"
            /\ error' = customError(e)
            /\ answered' = [answered EXCEPT !.rerank = "failed"]
            /\ UNCHANGED reqCount
    /\ UNCHANGED <<callerVars, probes, config, apiType, status, path, task, promises, results,
                   apiDocs, classifiedDocs, rerankerDocs, scored, result>>

\* the /api/rerank request fails with e
RerankFailure(e) ==
    /\ pc = "rerank"
    /\ pc' = "failed"
    /\ error' = customError(e)
    /\ answered' = [answered EXCEPT !.rerank = "failed"]
    /\ UNCHANGED <<callerVars, probes, config, apiType, status, reqCount, path, task, promises, results,
                   apiDocs, classifiedDocs, rerankerDocs, scored, result>>

(***************************************************************************)
(* vl-classifier path: rerankWithVLClassifier.                             *)
(***************************************************************************)
\* rerankWithVLClassifier after `await Promise.all(classificationPromises)`
\* with classifications c: filter, enrich, then probe /api/status
AfterClassification(c) ==
    LET docsToRerank == keptByFilter(c)
    IN  /\ classifiedDocs' = c
        /\ IF docsToRerank = <<>>
           THEN /\ pc' = "done"
                /\ result' = <<>>
                /\ UNCHANGED <<rerankerDocs, reqCount>>
           ELSE /\ pc' = "vl_status"
                /\ rerankerDocs' = SeqMap(docsToRerank, LAMBDA k : enrichedDoc(c, k))
                /\ reqCount' = [reqCount EXCEPT !["status"] = @ + 1]
                /\ UNCHANGED result

\* classifyDocumentComplexity of document d with classification cl settles
Classified(d, cl) ==
    /\ pc = "classifying"
    /\ d + 1 \in DOMAIN classifiedDocs
    /\ classifiedDocs[d + 1].st = "pending"
    /\ LET c == [classifiedDocs EXCEPT ![d + 1] = cl]
       IN  IF \A k \in DOMAIN c : c[k].st = "done"
           THEN AfterClassification(c)
           ELSE /\ classifiedDocs' = c
                /\ UNCHANGED <<pc, result, rerankerDocs, reqCount>>
    /\ UNCHANGED <<callerVars, probes, config, apiType, status, answered, error, path, task, promises, results,
                   apiDocs, scored>>

\* /api/classify answers for document d
ClassifyResponse(d, response) ==
    /\ response \in ClassifyResponses
    /\ Classified(d, [st |-> "done",
                   complexity |-> IF response.complexity = "none" THEN "LOW"
                                  ELSE response.complexity,
                   confidence |-> response.confidence,
                   failed |-> FALSE])

\* the /api/classify request of document d fails, or its response is null
\* and reading it throws: default to LOW
ClassifyFailure(d) ==
    /\ d \in 0..(config.n - 1)
    /\ Classified(d, failedClassification)

\* rerankWithVLClassifier, step 4: /api/status settles
VLStatus(outcome) ==
    /\ pc = "vl_status"
    /\ status' = checkServerStatus(outcome)
    /\ answered' = [answered EXCEPT !.status = settled(outcome.ok)]
    /\ IF checkServerStatus(outcome).hasReranker
       THEN \* rerankWithCustomAPI(context, {...config, documents: rerankerDocs})
            /\ path' = "vl-direct"
            /\ pc' = "rerank"
            /\ apiDocs' = rerankerDocs
            /\ reqCount' = [reqCount EXCEPT !["rerank"] = @ + 1]
            /\ UNCHANGED <<scored, result>>
       ELSE LET scoredDocs == [k \in DOMAIN rerankerDocs |->
                                   syntheticDoc(rerankerDocs[k], k - 1)]
            IN  /\ path' = "vl-synthetic"
                /\ pc' = "done"
                /\ scored' = SeqMap(scoredDocs, vlRerankedDoc)
                /\ result' = SeqMap(RankPolicy(scoredDocs, config.threshold, topK),
                                    vlRerankedDoc)
                /\ UNCHANGED <<apiDocs, reqCount>>
    /\ UNCHANGED <<callerVars, probes, config, apiType, error, task, promises, results, classifiedDocs,
                   rerankerDocs>>

(***************************************************************************)
(* Capability detection: detectServerType, called by execute() for 'auto'. *)
(***************************************************************************)
\* detectServerType: /api/status settles
DetectStatus(outcome) ==
    /\ pc = "detect_status"
    /\ UNCHANGED <<callerVars, config>>
    /\ probes' = IF checkServerStatus(outcome).hasClassifier THEN probes
                 ELSE Append(probes, probe("tags"))
    /\ status' = checkServerStatus(outcome)
    /\ answered' = [answered EXCEPT !.status = settled(outcome.ok),
                                    !.classifier = IF outcome.ok /\ outcome.has_classifier
                                                   THEN "yes" ELSE "no"]
    /\ IF checkServerStatus(outcome).hasClassifier
       THEN /\ apiType' = "vl-classifier"
            /\ ProcessItem("vl-classifier", reqCount)
       ELSE /\ pc' = "detect_tags"
            /\ reqCount' = [reqCount EXCEPT !["tags"] = @ + 1]
            /\ UNCHANGED <<apiType, error, path, task, promises, results, apiDocs,
                           classifiedDocs, rerankerDocs, scored, result>>

\* detectServerType: /api/tags settles
DetectTags(ok) ==
    /\ pc = "detect_tags"
    /\ UNCHANGED <<callerVars, config, status>>
    /\ probes' = IF ok THEN probes ELSE Append(probes, probe("rerank"))
    /\ answered' = [answered EXCEPT !.tags = settled(ok)]
    /\ IF ok
       THEN /\ apiType' = "ollama"
            /\ ProcessItem("ollama", reqCount)
       ELSE /\ pc' = "detect_rerank"
            /\ reqCount' = [reqCount EXCEPT !["rerank"] = @ + 1]
            /\ UNCHANGED <<apiType, error, path, task, promises, results, apiDocs,
                           classifiedDocs, rerankerDocs, scored, result>>

\* a probe whose failure is taken for a direct-rerank server
rerankProbeType_AlwaysCustom(ok) == "custom"

\* detectServerType, last try/catch: 'custom' if the probe responds,
\* 'ollama' by default
rerankProbeType(ok) == IF ok THEN "custom" ELSE "ollama"

\* detectServerType: the /api/rerank probe settles
DetectRerank(ok) ==
    /\ pc = "detect_rerank"
    /\ UNCHANGED <<callerVars, probes, config, status>>
    /\ answered' = [answered EXCEPT !.probe = settled(ok)]
    /\ LET detected == rerankProbeType(ok)
       IN  /\ apiType' = detected
           /\ ProcessItem(detected, reqCount)

(***************************************************************************)
(* Callers: compressDocuments of the provider, the item loop of execute(). *)
(***************************************************************************)
\* a document that keeps its helper field _originalIndex
cleanDoc_KeepsIndex(doc) ==
    [doc |-> doc.doc, originalIndex |-> doc.originalIndex,
     originalScore |-> doc.originalScore,
     complexityClass |-> doc.complexityClass,
     complexityConfidence |-> doc.complexityConfidence]

\* const { _rerankScore, _originalIndex, ...cleanDoc } = doc
cleanDoc(doc) ==
    [doc |-> doc.doc, originalScore |-> doc.originalScore,
     complexityClass |-> doc.complexityClass,
     complexityConfidence |-> doc.complexityConfidence]

\* compressDocuments after `await provider.rerank(...)` has resolved; when
\* it rejects, compressDocuments rejects with the same error
CompressReturn ==
    /\ pc = "done"
    /\ config.entry = "provider"
    /\ caller.operation = "compressDocuments"
    /\ pc' = "compressed"
    /\ compressed' = SeqMap(result, cleanDoc)
    /\ UNCHANGED <<config, apiType, error, reqCount, path, task, promises, results, apiDocs,
                   classifiedDocs, rerankerDocs, scored, result, status, answered,
                   caller, itemIndex, returnData, parsed, probes>>

\* an error entry paired to the first input item
errorEntry_Unpaired(i, msg) == [item |-> 0, error |-> msg, documents |-> <<>>]

\* returnData.push({json: {error: error.message}, pairedItem: {item: itemIndex}})
errorEntry(i, msg) == [item |-> i, error |-> msg, documents |-> <<>>]

\* returnData.push({json: {query, documents}, pairedItem: {item: itemIndex}}),
\* with the reranked documents or with [] for an item without documents
outputEntry(i, docs) == [item |-> i, error |-> "none", documents |-> docs]

\* execute() once the processing of item itemIndex has ended, by a result
\* (pc = "done") or by an exception (pc = "failed"): the entry is pushed or
\* the exception leaves execute(); then the loop reads the parameters of
\* the next item, whose rerankDocuments call starts with fresh locals
ItemSettled ==
    /\ pc \in {"done", "failed"}
    /\ config.entry = "workflow"
    /\ UNCHANGED <<apiType, reqCount, status, answered, caller, compressed, parsed, probes>>
    /\ IF pc = "failed" /\ ~caller.continueOnFail
       THEN /\ pc' = "thrown"
            /\ UNCHANGED <<config, error, path, task, promises, results, apiDocs,
                           classifiedDocs, rerankerDocs, scored, result, itemIndex, returnData>>
       ELSE /\ returnData' = Append(returnData,
                                    IF pc = "failed" THEN errorEntry(itemIndex, error)
                                    ELSE outputEntry(itemIndex, result))
            /\ IF itemIndex + 1 < Len(caller.items)
               THEN LET item == caller.items[itemIndex + 2]
                    IN  /\ itemIndex' = itemIndex + 1
                        /\ config' = [config EXCEPT !.queryEmpty = item.queryEmpty,
                                                    !.n = item.n]
                        /\ pc' = "item"
                        /\ error' = "none"
                        /\ path' = "none"
                        /\ task' = [d \in 0..(item.n - 1) |-> idleTask]
                        /\ promises' = <<>>
                        /\ results' = <<>>
                        /\ apiDocs' = <<>>
                        /\ classifiedDocs' = <<>>
                        /\ rerankerDocs' = <<>>
                        /\ scored' = <<>>
                        /\ result' = <<>>
               ELSE /\ pc' = "returned"
                    /\ UNCHANGED <<config, error, path, task, promises, results, apiDocs,
                                   classifiedDocs, rerankerDocs, scored, result, itemIndex>>

\* execute(), body of the item loop for an item after the first one
WorkflowItem ==
    /\ pc = "item"
    /\ config.entry = "workflow"
    /\ UNCHANGED <<callerVars, probes, config, apiType, status, answered>>
    /\ ProcessItem(apiType, reqCount)

(***************************************************************************)
(* The response parser on its own.                                         *)
(***************************************************************************)
\* parseRerankerResponse has not been called
notParsed == [called |-> FALSE, model |-> "none", hasText |-> FALSE,
              output |-> [token |-> NoToken, words |-> {}, long |-> FALSE, yesFirst |-> FALSE],
              score |-> NoScore]

\* const score = parseRerankerResponse(config.model, response)
ParseResponse ==
    /\ pc = "parser"
    /\ ~parsed.called
    /\ parsed' = [parsed EXCEPT !.called = TRUE,
                                !.score = parseModelResponse(parsed.model, parsed.hasText,
                                                             parsed.output)]
    /\ UNCHANGED <<config, apiType, pc, error, reqCount, path, task, promises, results, apiDocs,
                   classifiedDocs, rerankerDocs, scored, result, status, answered,
                   caller, itemIndex, returnData, compressed, probes>>

(***************************************************************************)
(* Specification.                                                          *)
(***************************************************************************)
\* provider.rerank: topN may exceed the limit of 100.  A document set larger
\* than the limit is sent to the direct endpoint only, in one request.
ProviderConfigs ==
    [entry : {"provider"}, apiType : {"ollama", "custom"},
     queryEmpty : BOOLEAN, n : 0..MaxDocs, topK : TopKs \cup {topKLimit + 1},
     threshold : Thresholds,
     batchSize : BatchSizes, enableClassification : {FALSE},
     classificationStrategy : {"metadata"}, filterComplexity : {"both"},
     includeOriginalScores : {FALSE}, originalScores : {FALSE}]
    \cup
    [entry : {"provider"}, apiType : {"custom"},
     queryEmpty : {FALSE}, n : {ManyDocs}, topK : {1, topKLimit + 1},
     threshold : {0},
     batchSize : {1}, enableClassification : {FALSE},
     classificationStrategy : {"metadata"}, filterComplexity : {"both"},
     includeOriginalScores : {FALSE}, originalScores : {FALSE}]

\* execute() of the workflow node.  The classification options are read on
\* the vl-classifier path only; with 'auto' they keep their defaults.
WorkflowConfigs ==
    [entry : {"workflow"}, apiType : {"ollama", "custom"},
     queryEmpty : BOOLEAN, n : 0..MaxDocs, topK : TopKs, threshold : Thresholds,
     batchSize : BatchSizes, enableClassification : {FALSE},
     classificationStrategy : {"metadata"}, filterComplexity : {"both"},
     includeOriginalScores : {FALSE}, originalScores : {FALSE}]
    \cup
    [entry : {"workflow"}, apiType : {"vl-classifier", "auto"},
     queryEmpty : BOOLEAN, n : 0..MaxDocs, topK : TopKs, threshold : Thresholds,
     batchSize : BatchSizes, enableClassification : BOOLEAN,
     classificationStrategy : {"metadata"}, filterComplexity : {"both"},
     includeOriginalScores : {FALSE}, originalScores : {FALSE}]
    \cup
    [entry : {"workflow"}, apiType : {"vl-classifier"},
     queryEmpty : BOOLEAN, n : 0..MaxDocs, topK : TopKs, threshold : Thresholds,
     batchSize : BatchSizes, enableClassification : {TRUE},
     classificationStrategy : {"metadata", "filter", "both"},
     filterComplexity : {"LOW", "HIGH", "both"},
     includeOriginalScores : {FALSE}, originalScores : {FALSE}]

\* Requests whose documents may carry _originalScore, with either value of
\* the includeOriginalScores option: threshold 0, the largest topK and
\* batchSize, a non-empty query
OriginalScoreConfigs ==
    {[c EXCEPT !.includeOriginalScores = i, !.originalScores = o] :
        c \in {b \in ProviderConfigs \cup WorkflowConfigs :
                  /\ b.threshold = 0
                  /\ b.topK = MaxTopK
                  /\ b.batchSize = MaxBatch
                  /\ ~b.queryEmpty},
        i \in BOOLEAN, o \in BOOLEAN}

\* the state before the entry point is called
InitRerank(configs) ==
    /\ config \in configs
    /\ apiType = config.apiType
    /\ pc = "idle"
    /\ error = "none"
    /\ reqCount = [e \in Endpoints |-> 0]
    /\ path = "none"
    /\ task = [d \in 0..(config.n - 1) |-> idleTask]
    /\ promises = <<>>
    /\ results = <<>>
    /\ apiDocs = <<>>
    /\ classifiedDocs = <<>>
    /\ rerankerDocs = <<>>
    /\ scored = <<>>
    /\ result = <<>>
    /\ status = noStatus
    /\ answered = nothingAnswered

\* one call of provider.rerank, or execute() on one input item without
\* continue-on-fail
InitWith(configs) ==
    /\ InitRerank(configs)
    /\ caller = [operation |-> IF config.entry = "provider" THEN "rerank" ELSE "execute",
                 continueOnFail |-> FALSE,
                 items |-> <<[queryEmpty |-> config.queryEmpty, n |-> config.n]>>]
    /\ itemIndex = 0
    /\ returnData = <<>>
    /\ compressed = <<>>
    /\ parsed = notParsed
    /\ probes = <<>>

Init == InitWith(ProviderConfigs \cup WorkflowConfigs)

InitOriginalScores == InitWith(OriginalScoreConfigs)

Next ==
    \/ ProviderRerank
    \/ WorkflowExecute
    \/ \E d \in 0..(MaxDocs - 1), response \in Responses : ScoreResponse(d, response)
    \/ \E d \in 0..(MaxDocs - 1), e \in Errors : ScoreFailure(d, e)
    \/ \E d \in 0..(MaxDocs - 1) : BackoffElapsed(d)
    \/ \E serverResults \in ServerResults(MaxDocs) \cup {listAll(ManyDocs)} :
           RerankResponse(serverResults)
    \/ RerankMalformed
    \/ \E e \in Errors : RerankFailure(e)
    \/ \E d \in 0..(MaxDocs - 1), response \in ClassifyResponses : ClassifyResponse(d, response)
    \/ \E d \in 0..(MaxDocs - 1) : ClassifyFailure(d)
    \/ \E outcome \in StatusOutcomes : VLStatus(outcome)
    \/ \E outcome \in StatusOutcomes : DetectStatus(outcome)
    \/ \E ok \in BOOLEAN : DetectTags(ok)
    \/ \E ok \in BOOLEAN : DetectRerank(ok)

Spec == Init /\ [][Next]_vars

\* the same program on documents that may carry _originalScore
SpecOriginalScores == InitOriginalScores /\ [][Next]_vars

\* Calls through compressDocuments and executions over several input
\* items: threshold 0, batchSize 1, topK 1 (or MaxTopK for the provider); an
\* input item holds at most MaxItemDocs documents
MaxItems == 2
MaxItemDocs == 1
ItemParams == [queryEmpty : BOOLEAN, n : 0..MaxItemDocs]
ItemSeqs == UNION {[1..k -> ItemParams] : k \in 1..MaxItems}

CallerConfigs ==
    {c \in ProviderConfigs \cup WorkflowConfigs :
        /\ c.threshold = 0
        /\ c.topK \in {1, MaxTopK}
        /\ c.batchSize = 1
        /\ c.n <= MaxDocs
        /\ c.entry = "workflow" => c.topK = 1
        /\ c.entry = "workflow" => c.n <= MaxItemDocs}

InitCallers ==
    /\ InitRerank(CallerConfigs)
    /\ caller \in
         IF config.entry = "provider"
         THEN [operation : {"rerank", "compressDocuments"}, continueOnFail : {FALSE},
               items : {<<[queryEmpty |-> config.queryEmpty, n |-> config.n]>>}]
         ELSE [operation : {"execute"}, continueOnFail : BOOLEAN,
               items : {items \in ItemSeqs :
                           items[1] = [queryEmpty |-> config.queryEmpty, n |-> config.n]}]
    /\ itemIndex = 0
    /\ returnData = <<>>
    /\ compressed = <<>>
    /\ parsed = notParsed
    /\ probes = <<>>

NextCallers ==
    \/ Next
    \/ CompressReturn
    \/ ItemSettled
    \/ WorkflowItem

SpecCallers == InitCallers /\ [][NextCallers]_vars

\* The response parser applied to a model identifier and a response
InitParser ==
    /\ config \in {c \in ProviderConfigs : /\ c.apiType = "ollama" /\ c.n = 1
                                           /\ c.topK = 1 /\ c.threshold = 0
                                           /\ c.batchSize = 1 /\ ~c.queryEmpty}
    /\ apiType = config.apiType
    /\ pc = "parser"
    /\ error = "none"
    /\ reqCount = [e \in Endpoints |-> 0]
    /\ path = "none"
    /\ task = [d \in 0..(config.n - 1) |-> idleTask]
    /\ promises = <<>>
    /\ results = <<>>
    /\ apiDocs = <<>>
    /\ classifiedDocs = <<>>
    /\ rerankerDocs = <<>>
    /\ scored = <<>>
    /\ result = <<>>
    /\ status = noStatus
    /\ answered = nothingAnswered
    /\ caller = [operation |-> "parse", continueOnFail |-> FALSE, items |-> <<>>]
    /\ itemIndex = 0
    /\ returnData = <<>>
    /\ compressed = <<>>
    /\ parsed \in {a \in [called : {FALSE}, model : Models, hasText : BOOLEAN,
                          output : Outputs, score : {NoScore}] :
                      ~a.hasText => a.output = notParsed.output}
    /\ probes = <<>>

NextParser == ParseResponse

SpecParser == InitParser /\ [][NextParser]_vars

(***************************************************************************)
(* Properties.                                                             *)
(***************************************************************************)
InResult(r) == \E k \in DOMAIN result : result[k] = r

\* C1: every returned document has _rerankScore >= threshold on every
\* backend path, and a scored document whose score equals the threshold is
\* kept (it can only be missing when topK documents are returned).
C1_ThresholdInclusive ==
    pc = "done" =>
        /\ \A k \in DOMAIN result : result[k].rerankScore >= config.threshold
        /\ \A j \in DOMAIN scored :
               scored[j].rerankScore = config.threshold =>
                   InResult(scored[j]) \/ Len(result) >= config.topK

\* C1 witness: a generate-path result that keeps a document scored exactly
\* at a positive threshold and drops another one below it.
C1_Witness ==
    /\ pc = "done"
    /\ path = "generate"
    /\ config.threshold > 0
    /\ \E k \in DOMAIN result : result[k].rerankScore = config.threshold
    /\ \E j \in DOMAIN scored : scored[j].rerankScore < config.threshold

\* C2: with topK >= 1, the number of documents returned never exceeds topK,
\* on every backend path.
C2_AtMostTopK ==
    (pc = "done" /\ config.topK >= 1) => Len(result) <= config.topK

\* C3: the returned list is sorted by _rerankScore in non-increasing order,
\* on every backend path.
C3_SortedDescending ==
    pc = "done" =>
        \A k \in 1..(Len(result) - 1) :
            result[k].rerankScore >= result[k + 1].rerankScore

C5_EmptyDocumentsNoRequest ==
    (config.n = 0 /\ ~config.queryEmpty /\ config.topK >= 1) =>
        /\ totalRequests = 0
        /\ pc # "failed"
        /\ result = <<>>

\* C6: a request with an empty query issues no HTTP request, and when it
\* ends it has failed with 'Query cannot be empty', for every API type.
C6_EmptyQueryNoRequest ==
    (config.queryEmpty /\ config.topK >= 1) =>
        /\ totalRequests = 0
        /\ pc # "done"
        /\ pc = "failed" => error = "Query cannot be empty"

\* The score the response parser owes for a response of the model: 0 for
\* no text, the token itself within [0, 1], a tenth of a token in (1, 10].
ExpectedScore(response) ==
    CASE response = NoText -> 0
      [] response > 100 /\ response <= 1000 -> response \div 10
      [] OTHER -> response

\* C7: a document scored after k failed attempts (k at most 2) carries the
\* score parsed from the successful response, and exactly k + 1 requests
\* were made for it.
C7_RetryThenSuccess ==
    \A d \in DOMAIN task :
        task[d].st = "resolved" =>
            /\ task[d].failures \in {0, 1, 2}
            /\ task[d].calls = task[d].failures + 1
            /\ task[d].score = ExpectedScore(task[d].response)

\* C7 witness: two failures, then the third response "5" is scored 0.5.
C7_Witness ==
    \E d \in DOMAIN task :
        /\ task[d].st = "resolved"
        /\ task[d].failures = 2
        /\ task[d].calls = 3
        /\ task[d].response = 500
        /\ task[d].score = 50

\* C8: once a scoring attempt has failed with status 400 or 404 no further
\* request is made for that document (every request made for it has failed,
\* so a failure of the first attempt leaves exactly 1 request) and the
\* rerank call has failed with an error.
C8_PermanentErrorNoRetry ==
    \A d \in DOMAIN task :
        task[d].lastError \in {"HTTP400", "HTTP404"} =>
            /\ task[d].st = "rejected"
            /\ task[d].calls = task[d].failures
            /\ pc = "failed"
            /\ error # "none"

\* C8 witness: a 404 on the first attempt, 1 request, the call failed.
C8_Witness ==
    \E d \in DOMAIN task :
        /\ task[d].lastError = "HTTP404"
        /\ task[d].calls = 1
        /\ pc = "failed"
        /\ error = "Ollama API Error"

\* C9: at most 3 requests are made for one document, and after 3 failed
\* attempts the document is not scored: the call has failed with an API
\* error.
C9_AtMostThreeAttempts ==
    \A d \in DOMAIN task :
        /\ task[d].calls <= 3
        /\ task[d].failures = 3 =>
               /\ task[d].st = "rejected"
               /\ pc = "failed"
               /\ error \in {"Request timeout", "Ollama API Error",
                             "Ollama reranking request failed"}

\* C9 witness: three transient failures of one document.
C9_Witness ==
    \E d \in DOMAIN task :
        /\ task[d].failures = 3
        /\ task[d].calls = 3
        /\ task[d].st = "rejected"
        /\ task[d].lastError \in {"AbortError", "ETIMEDOUT", "HTTP500"}
        /\ error = "Request timeout"

\* C10: on the generate path, a document whose scoring failed for good
\* means the call has failed and returned nothing; a returned list means
\* every input document was scored, with one collected score each, in
\* input order.
C10_AllOrNothing ==
    path = "generate" =>
        /\ (\E d \in DOMAIN task : task[d].st = "rejected") =>
               (pc = "failed" /\ error # "none" /\ result = <<>>)
        /\ pc = "done" =>
               /\ Len(results) = config.n
               /\ \A d \in 0..(config.n - 1) :
                      /\ task[d].st = "resolved"
                      /\ results[d + 1] = [index |-> d, score |-> task[d].score]
               /\ scored = SeqMap(results, rerankedDoc)

\* C10 witness: of two documents one is scored and the other one fails
\* after its retries; the call has failed.
C10_Witness ==
    /\ path = "generate"
    /\ pc = "failed"
    /\ \E d, f \in DOMAIN task :
           /\ task[d].st = "resolved"
           /\ task[f].st = "rejected"
           /\ task[f].failures = 3

\* C11: on the generate path the number of scoring requests that are sent
\* and not yet completed never exceeds batchSize, and neither does the
\* number of documents being scored (request outstanding or waiting to
\* retry), whatever the document count and however often documents retry.
C11_OutstandingAtMostBatchSize ==
    path = "generate" =>
        /\ Cardinality({d \in DOMAIN task : task[d].st = "inflight"}) <= config.batchSize
        /\ Cardinality({d \in DOMAIN task : task[d].st \in {"inflight", "backoff"}})
               <= config.batchSize

\* C11 witness: batchSize 1 and two documents; the first one was scored on
\* a retry and the second one is outstanding on its own retry.
C11_Witness ==
    /\ path = "generate"
    /\ config.batchSize = 1
    /\ config.n = 2
    /\ task[0].st = "resolved"
    /\ task[0].failures >= 1
    /\ task[1].st = "inflight"
    /\ task[1].attempt >= 1

\* C12: every collected score sits at the position of its input index and
\* is the score parsed from the response to that document's own request,
\* whichever order the responses arrived in.
C12_ScoresInInputOrder ==
    \A k \in DOMAIN results :
        /\ results[k].index = k - 1
        /\ task[k - 1].st = "resolved"
        /\ results[k].score = ExpectedScore(task[k - 1].response)

\* C12 witness: two documents of one wave with different scores, the
\* second one answered first, both collected.
C12_Witness ==
    /\ config.n = 2
    /\ config.batchSize = 2
    /\ Len(results) = 2
    /\ task[1].order < task[0].order
    /\ task[0].score # task[1].score

VLPaths == {"vl", "vl-direct", "vl-synthetic"}

\* C13: a document whose classification request failed is classified LOW
\* with confidence 0, and the failure does not propagate: a vl-classifier
\* call fails only where its rerank request was answered with an error or
\* a malformed response.
C13_ClassifyFailureDefaultsToLow ==
    /\ \A k \in DOMAIN classifiedDocs :
           classifiedDocs[k].failed =>
               /\ classifiedDocs[k].complexity = "LOW"
               /\ classifiedDocs[k].confidence = 0
    /\ (path \in VLPaths /\ pc = "failed") => answered.rerank \in {"malformed", "failed"}

\* C13 witness: both classify requests failed and the call returned both
\* documents.
C13_Witness ==
    /\ pc = "done"
    /\ path = "vl-synthetic"
    /\ Len(classifiedDocs) = 2
    /\ \A k \in DOMAIN classifiedDocs : classifiedDocs[k].failed
    /\ Len(result) = 2

C15_ComplexityFilter ==
    (/\ path \in VLPaths
     /\ pc # "classifying"
     /\ config.classificationStrategy \in {"filter", "both"}) =>
        LET matching == {k \in DOMAIN classifiedDocs :
                            classifiedDocs[k].complexity = config.filterComplexity}
            expected == IF config.filterComplexity = "both"
                        THEN DOMAIN classifiedDocs ELSE matching
        IN  /\ {rerankerDocs[j].doc + 1 : j \in DOMAIN rerankerDocs} = expected
            /\ Len(rerankerDocs) = Cardinality(expected)
            /\ \A i, j \in DOMAIN rerankerDocs :
                   i < j => rerankerDocs[i].doc < rerankerDocs[j].doc

\* C15 witness: strategy both, filterComplexity HIGH, classifications
\* LOW and HIGH: exactly the second document is left.
C15_Witness ==
    /\ path \in VLPaths
    /\ config.classificationStrategy = "both"
    /\ config.filterComplexity = "HIGH"
    /\ Len(classifiedDocs) = 2
    /\ classifiedDocs[1].complexity = "LOW"
    /\ classifiedDocs[2].complexity = "HIGH"
    /\ classifiedDocs[2].st = "done"
    /\ Len(rerankerDocs) = 1
    /\ rerankerDocs[1].doc = 1

\* C16: with apiType 'auto', detection does not fail; once it has
\* returned, the type is 'vl-classifier' if /api/status reported a
\* classifier, otherwise 'ollama' if /api/tags responded, otherwise
\* 'custom' if the /api/rerank probe responded, otherwise 'ollama'; and it
\* has returned once the last probe is settled.
C16_DetectServerType ==
    config.apiType = "auto" =>
        /\ apiType = "auto" =>
               /\ pc \in {"idle", "detect_status", "detect_tags", "detect_rerank"}
               /\ error = "none"
               /\ answered.probe = "none"
        /\ apiType # "auto" =>
               apiType = IF answered.classifier = "yes" THEN "vl-classifier"
                         ELSE IF answered.tags = "ok" THEN "ollama"
                         ELSE IF answered.probe = "ok" THEN "custom"
                         ELSE "ollama"

\* C16 witness: the three probes failed and the type is 'ollama'.
C16_Witness ==
    /\ config.apiType = "auto"
    /\ answered.status = "failed"
    /\ answered.tags = "failed"
    /\ answered.probe = "failed"
    /\ apiType = "ollama"

\* C17: a failed status request is returned as status 'error' without
\* classifier and without reranker, and it is not thrown: the vl-classifier
\* call goes on with synthetic scores and returns, and detection goes on
\* with the next probe.
C17_StatusNeverThrows ==
    answered.status = "failed" =>
        /\ status = [status |-> "error", hasClassifier |-> FALSE, hasReranker |-> FALSE]
        /\ config.apiType = "vl-classifier" =>
               (pc = "done" /\ path = "vl-synthetic" /\ error = "none")
        /\ (config.apiType = "auto" /\ pc = "failed") =>
               (config.queryEmpty \/ path # "none")

\* C17 witness: the status request of a vl-classifier call failed and the
\* call returned a document.
C17_Witness ==
    /\ config.apiType = "vl-classifier"
    /\ answered.status = "failed"
    /\ status.status = "error"
    /\ pc = "done"
    /\ Len(result) >= 1

\* C18: after a response of /api/rerank without a results array the call
\* has failed with an error and has returned no list.
C18_MalformedResultsFail ==
    answered.rerank = "malformed" =>
        /\ pc = "failed"
        /\ error # "none"
        /\ result = <<>>

\* C18 witness: the direct path received a response without results.
C18_Witness ==
    /\ path = "direct"
    /\ answered.rerank = "malformed"
    /\ pc = "failed"
    /\ error = "Custom Rerank API request failed"

\* C19: when includeOriginalScores is false no returned document carries
\* _originalScore, on every backend path.
C19_NoOriginalScoreUnlessIncluded ==
    (pc = "done" /\ ~config.includeOriginalScores) =>
        \A k \in DOMAIN result : ~result[k].originalScore

\* C20: a request with topK smaller than 1 issues no HTTP request, and when
\* it ends it has failed with 'topN/topK must be at least 1', on both entry
\* points.
C20_TopKValidated ==
    config.topK < 1 =>
        /\ totalRequests = 0
        /\ pc # "done"
        /\ pc = "failed" => error = "topN/topK must be at least 1"

\* C21: provider.rerank with topN above 100 does not fail on validation and
\* returns at most 100 documents; with topN between 1 and 100 the generate
\* path returns at most topN documents.
C21_TopNClampedTo100 ==
    (config.entry = "provider" /\ config.topK >= 1) =>
        /\ pc = "failed" => error # "topN/topK must be at least 1"
        /\ (pc = "done" /\ config.topK > 100) => Len(result) <= 100
        /\ (pc = "done" /\ config.topK <= 100 /\ path = "generate") =>
               Len(result) <= config.topK

\* C22: compressDocuments returns the documents of provider.rerank for the
\* same query and topN, in the same order, each without _rerankScore and
\* _originalIndex and with its other fields unchanged; it returns nothing
\* unless provider.rerank has returned.
C22_CompressSameDocuments ==
    /\ pc = "compressed" =>
        /\ Len(compressed) = Len(result)
        /\ \A k \in DOMAIN compressed :
               /\ DOMAIN compressed[k] = DOMAIN result[k] \ {"rerankScore", "originalIndex"}
               /\ \A f \in DOMAIN compressed[k] : compressed[k][f] = result[k][f]
    /\ pc # "compressed" => compressed = <<>>

\* C22 witness: compressDocuments has returned two documents that
\* provider.rerank had put in the reverse of their input order.
C22_Witness ==
    /\ pc = "compressed"
    /\ Len(compressed) = 2
    /\ compressed[1].doc = 1
    /\ compressed[2].doc = 0
    /\ path = "generate"
    /\ result[1].originalIndex = 1

\* C23, state part: the entries pushed so far are one per item already
\* processed, in input order, each paired to its item index; an item with
\* an empty query has an error entry, an item with a query and without
\* documents has an entry without documents; with continue-on-failure set
\* execute never throws, all the items are processed and it returns one
\* entry per input item; with the flag unset no error entry is ever pushed
\* and the execute that throws returns no output.
C23_EntriesPaired ==
    config.entry = "workflow" =>
        /\ Len(returnData) = IF pc = "returned" THEN itemIndex + 1 ELSE itemIndex
        /\ \A k \in DOMAIN returnData :
               /\ returnData[k].item = k - 1
               /\ caller.items[k].queryEmpty <=> returnData[k].error = "Query cannot be empty"
               /\ (~caller.items[k].queryEmpty /\ caller.items[k].n = 0) =>
                      (returnData[k].error = "none" /\ returnData[k].documents = <<>>)
               /\ returnData[k].error # "none" => caller.continueOnFail
        /\ caller.continueOnFail => pc # "thrown"
        /\ pc = "returned" => Len(returnData) = Len(caller.items)
        /\ pc = "thrown" => (~caller.continueOnFail /\ Len(returnData) < Len(caller.items))

\* C23, step part: when the processing of item i ends by a failure, with
\* the flag set its error entry is pushed and execute goes on with item
\* i + 1 or returns, with the flag unset execute throws at once.
C23_FailureStep ==
    (pc = "failed" /\ config.entry = "workflow" /\ pc' # pc) =>
        IF caller.continueOnFail
        THEN /\ returnData' = Append(returnData, [item |-> itemIndex, error |-> error,
                                                  documents |-> <<>>])
             /\ IF itemIndex + 1 < Len(caller.items)
                THEN pc' = "item" /\ itemIndex' = itemIndex + 1
                ELSE pc' = "returned"
        ELSE pc' = "thrown" /\ returnData' = returnData

\* C23: with continue-on-failure a failing item yields its error entry and
\* the next item is processed, execute returning one entry per input item,
\* in input order, each paired to its item index; without it the first
\* failing item aborts execute, which returns no output.
C23_ContinueOnFail == []C23_EntriesPaired /\ [][C23_FailureStep]_vars

\* C23 witness: execute has returned two entries, an error entry for item 0
\* whose scoring failed and the reranked document of item 1.
C23_Witness ==
    /\ pc = "returned"
    /\ caller.continueOnFail
    /\ Len(returnData) = 2
    /\ returnData[1].error \notin {"none", "Query cannot be empty"}
    /\ returnData[2].error = "none"
    /\ Len(returnData[2].documents) = 1
    /\ reqCount["generate"] >= 2

\* C24: the response parser returns a score in [0, 1] for every model
\* identifier and every response.
C24_ParsedScoreInUnitInterval ==
    parsed.called => parsed.score \in 0..100

\* C25: every returned document carries as _originalIndex its own position
\* in the documents of the call, on every path.
C25_OriginalIndexIsInputPosition ==
    pc = "done" =>
        \A k \in DOMAIN result : result[k].originalIndex = result[k].doc

waveOf(d) == d \div config.batchSize

\* C27: a document whose scoring request has been issued has every document
\* of the earlier waves scored; while a wave is awaited, it starts at a
\* multiple of batchSize, holds consecutive documents, batchSize of them or
\* all that are left, and the request of each has been issued.
C27_WavesInOrder ==
    path = "generate" =>
        /\ \A d, e \in DOMAIN task :
               (task[d].calls >= 1 /\ waveOf(e) < waveOf(d)) => task[e].st = "resolved"
        /\ pc = "scoring" =>
               /\ promises # <<>>
               /\ promises[1] % config.batchSize = 0
               /\ Len(promises) = Min(config.batchSize, config.n - promises[1])
               /\ \A k \in DOMAIN promises :
                      /\ promises[k] = promises[1] + k - 1
                      /\ task[promises[k]].calls >= 1
               /\ \A d \in DOMAIN task : d > promises[Len(promises)] => task[d].calls = 0

\* C27 witness: batchSize 1; the second document was requested and scored
\* after the first one had been scored on a retry.
C27_Witness ==
    /\ path = "generate"
    /\ pc = "done"
    /\ config.batchSize = 1
    /\ config.n = 2
    /\ task[0].failures >= 1
    /\ task[0].order < task[1].order
    /\ task[1].st = "resolved"

TransientErrors == {"AbortError", "ETIMEDOUT", "HTTP500"}

C29_ConnectionErrorRetried ==
    \A d \in DOMAIN task :
        (task[d].lastError = "ECONNREFUSED" /\ task[d].st = "rejected") =>
            task[d].calls = 3

\* Errors that are neither permanent (400, 404) nor transient (abort,
\* ETIMEDOUT, status >= 500)
OtherErrors ==
    {e \in Errors : /\ statusCode(e) \notin {400, 404}
                    /\ e \notin {"AbortError", "ETIMEDOUT"}
                    /\ statusCode(e) < 500}

classificationOf(d) == classifiedDocs[d + 1]

\* C31: on the vl-classifier path without server reranker, under every
\* strategy, a scored document classified HIGH with confidence c has
\* _rerankScore 0.8 + 0.2 c and one classified LOW has 0.2 + 0.2 c, c being
\* 0 when the classifier gave no confidence.
C31_SyntheticScore ==
    (pc = "done" /\ path = "vl-synthetic") =>
        \A j \in DOMAIN scored :
            LET cl == classificationOf(scored[j].doc)
                c == IF cl.confidence = NoConf THEN 0 ELSE cl.confidence
            IN  scored[j].rerankScore =
                    (IF cl.complexity = "HIGH" THEN 80 ELSE 20) + (20 * c) \div 100

\* requests made by detectServerType before a call that it resolved to
\* 'vl-classifier': one status probe
detectStatusProbes == IF config.apiType = "auto" THEN 1 ELSE 0

\* C32: on the vl-classifier path no status probe and no /api/rerank
\* request is made before all classifications have settled; when a document
\* survives the filter exactly one status probe is made; if it reports a
\* reranker exactly one POST /api/rerank is made over the surviving
\* documents and no score exists before it answers; if it reports none or
\* fails, no /api/rerank request is made; when no document survives, the
\* result is empty without error, status probe or /api/rerank request.
C32_StatusProbeThenDelegate ==
    LET statusProbes == reqCount["status"] - detectStatusProbes
    IN  /\ (path = "vl" /\ pc = "classifying") =>
               (statusProbes = 0 /\ reqCount["rerank"] = 0)
        /\ (path = "vl" /\ pc = "vl_status") =>
               /\ \A k \in DOMAIN classifiedDocs : classifiedDocs[k].st = "done"
               /\ rerankerDocs # <<>>
               /\ statusProbes = 1
               /\ reqCount["rerank"] = 0
        /\ path = "vl-direct" =>
               /\ status.hasReranker
               /\ answered.status = "ok"
               /\ statusProbes = 1
               /\ reqCount["rerank"] = 1
               /\ apiDocs = rerankerDocs
               /\ Len(apiDocs) = Len(keptByFilter(classifiedDocs))
               /\ pc = "rerank" => (scored = <<>> /\ result = <<>>)
        /\ path = "vl-synthetic" =>
               /\ ~status.hasReranker
               /\ statusProbes = 1
               /\ reqCount["rerank"] = 0
        /\ (path = "vl" /\ pc \in {"done", "failed"}) =>
               /\ pc = "done"
               /\ keptByFilter(classifiedDocs) = <<>>
               /\ result = <<>>
               /\ error = "none"
               /\ statusProbes = 0
               /\ reqCount["rerank"] = 0

\* C32 witness: the filter dropped one of two documents, the status probe
\* reported a reranker, and the surviving document is returned with the
\* score 0 of the server, which no synthetic score equals.
C32_Witness ==
    /\ pc = "done"
    /\ path = "vl-direct"
    /\ config.n = 2
    /\ Len(rerankerDocs) = 1
    /\ Len(result) = 1
    /\ result[1].rerankScore = 0
    /\ reqCount["rerank"] = 1

\* classification requests that have not settled
outstandingClassifications ==
    Cardinality({k \in DOMAIN classifiedDocs : classifiedDocs[k].st = "pending"})

\* C33: on the vl-classifier path the classification request of every
\* document is issued before any classification is awaited: from the start
\* of the call exactly n classify requests have been made, one per
\* document, each outstanding or settled, whatever the batchSize.
C33_ClassifyAllAtOnce ==
    path \in {"vl", "vl-direct", "vl-synthetic"} =>
        /\ reqCount["classify"] = config.n
        /\ DOMAIN classifiedDocs = 1..config.n
        /\ \A k \in DOMAIN classifiedDocs : classifiedDocs[k].st \in {"pending", "done"}
        /\ outstandingClassifications <= config.n
        /\ pc = "classifying" => outstandingClassifications >= 1

\* C33 witness: with batchSize 1, the classification requests of both
\* documents are outstanding at the same time.
C33_Witness ==
    /\ pc = "classifying"
    /\ config.batchSize = 1
    /\ config.n = 2
    /\ outstandingClassifications = 2
    /\ reqCount["classify"] = 2

\* requests of detectServerType to /api/rerank: its last probe
detectRerankProbes ==
    IF pc = "detect_rerank" \/ answered.probe # "none" THEN 1 ELSE 0

probeOrder == <<"status", "tags", "rerank">>

\* C35: detectServerType probes status, tags, rerank in this order, each
\* endpoint at most once and each with a timeout of 5000 ms whatever the
\* timeout of the caller; no tags probe follows a status that reports a
\* classifier, no rerank probe follows a tags probe that succeeds, so at
\* most 3 requests are made; without 'auto' none is made.
C35_ProbeOrder ==
    /\ Len(probes) <= 3
    /\ \A k \in DOMAIN probes :
           /\ probes[k].endpoint = probeOrder[k]
           /\ probes[k].timeout = 5000
    /\ config.apiType # "auto" => probes = <<>>
    /\ (config.apiType = "auto" /\ pc # "idle") => Len(probes) >= 1
    /\ Len(probes) >= 2 => (answered.status # "none" /\ ~status.hasClassifier)
    /\ Len(probes) = 3 => answered.tags = "failed"
    /\ answered.classifier = "yes" => Len(probes) = 1
    /\ answered.tags = "ok" => Len(probes) = 2
    /\ answered.probe # "none" => Len(probes) = 3
    /\ config.apiType = "auto" =>
           /\ reqCount["tags"] = (IF Len(probes) >= 2 THEN 1 ELSE 0)
           /\ reqCount["rerank"] - (IF path \in {"direct", "vl-direct"} THEN 1 ELSE 0)
                  = (IF Len(probes) = 3 THEN 1 ELSE 0)

\* C35 witness: status and tags have failed, the rerank probe has answered
\* and the type is 'custom': three probes were sent.
C35_Witness ==
    /\ Len(probes) = 3
    /\ answered.probe = "ok"
    /\ apiType = "custom"
    /\ timeout # probeTimeout

\* C36: under the filter or both strategy with filterComplexity LOW or
\* HIGH, a document whose classification request failed passes the
\* complexity filter: it is among the documents handed to the ranking step.
C36_FailedClassificationPassesFilter ==
    (/\ path \in {"vl", "vl-direct", "vl-synthetic"}
     /\ pc # "classifying"
     /\ config.classificationStrategy \in {"filter", "both"}
     /\ config.filterComplexity \in {"LOW", "HIGH"}) =>
        \A k \in DOMAIN classifiedDocs :
            classifiedDocs[k].failed =>
                \E j \in DOMAIN rerankerDocs : rerankerDocs[j].doc = k - 1

\* C37: for a BGE-family model and an output with a numeric token v, the
\* parser returns v / 10 for 1 < v <= 10, v / 100 for v > 10 and v
\* otherwise, the value returned being within [0, 1].
C37_BGENumericToken ==
    (/\ parsed.called
     /\ isBGE(parsed.model)
     /\ parsed.hasText
     /\ parsed.output.token # NoToken) =>
        LET v == parsed.output.token
        IN  /\ parsed.score = IF v > 100 /\ v <= 1000 THEN v \div 10
                              ELSE IF v > 1000 THEN v \div 100
                              ELSE v
            /\ parsed.score \in 0..100

\* errors for which scoreDocument raises 'Request timeout after ...ms
\* (tried 3 times)'
TimeoutErrors == {"AbortError", "ETIMEDOUT"}

\* C38: a scoreDocument call that has raised the timeout error has made
\* exactly 3 requests, all of which failed; a call of rerankDocuments that
\* failed with the timeout error holds such a document.
C38_TimeoutAfterThreeAttempts ==
    /\ \A d \in DOMAIN task :
           (task[d].st = "rejected" /\ task[d].lastError \in TimeoutErrors) =>
               /\ task[d].calls = 3
               /\ task[d].failures = 3
               /\ task[d].attempt = 2
    /\ (pc = "failed" /\ error = "Request timeout") =>
           \E d \in DOMAIN task :
               /\ task[d].st = "rejected"
               /\ task[d].lastError \in TimeoutErrors
               /\ task[d].calls = 3

\* C38 witness: the call has failed with the timeout error for a document
\* whose three requests failed, the last one by a timeout.
C38_Witness ==
    /\ pc = "failed"
    /\ error = "Request timeout"
    /\ \E d \in DOMAIN task :
           /\ task[d].st = "rejected"
           /\ task[d].lastError = "ETIMEDOUT"
           /\ task[d].calls = 3
           /\ task[d].waited = 300

\* C39, state part: once a document's scoring has failed for good the call
\* has failed; the rejected document belongs to the wave being awaited,
\* every document of a later wave has no request and no pending timer, and
\* only documents of that wave can still have a request or a timer pending.
C39_LaterWavesNeverStart ==
    path = "generate" =>
        /\ (\E d \in DOMAIN task : task[d].st = "rejected") => pc = "failed"
        /\ pc = "failed" =>
               /\ \E d \in Range(promises) : task[d].st = "rejected"
               /\ \A d \in DOMAIN task :
                      /\ task[d].st = "rejected" =>
                             \A e \in DOMAIN task :
                                 waveOf(e) > waveOf(d) =>
                                     (task[e].st = "idle" /\ task[e].calls = 0)
                      /\ task[d].st \in {"inflight", "backoff"} => d \in Range(promises)

\* C39, step part: after the rejection a step that issues a request is the
\* retry of one document of the awaited wave whose timer has elapsed.
C39_OnlyRetriesAfterRejection ==
    (pc = "failed" /\ path = "generate" /\ reqCount' # reqCount) =>
        \E d \in Range(promises) :
            /\ task[d].st = "backoff"
            /\ task'[d].st = "inflight"
            /\ task'[d].calls = task[d].calls + 1
            /\ reqCount' = [reqCount EXCEPT !["generate"] = @ + 1]
            /\ \A e \in DOMAIN task : e # d => task'[e] = task[e]

\* C39: when a document's scoring fails for good in a wave, rerankDocuments
\* rejects, no request is ever issued for a document of a later wave, and
\* the only requests issued after the rejection are retries of other
\* documents of the same wave.
C39_NoRequestAfterRejection ==
    []C39_LaterWavesNeverStart /\ [][C39_OnlyRetriesAfterRejection]_vars

\* C39 witness: with batchSize 1 the first of two documents has failed for
\* good after three requests; the second one was never requested.
C39_Witness ==
    /\ pc = "failed"
    /\ path = "generate"
    /\ config.batchSize = 1
    /\ config.n = 2
    /\ task[0].st = "rejected"
    /\ task[0].calls = 3
    /\ task[1].st = "idle"
    /\ task[1].calls = 0
    /\ reqCount["generate"] = 3

\* C40: a call with apiType 'vl-classifier' and enableClassification false
\* makes no classify, status or rerank request (the status probe of an
\* automatic detection apart); it takes the generate path, where the
\* documents are requested in waves of batchSize, each with at most 3
\* attempts, and the result holds the scores of all documents ranked by
\* threshold, score and topK, as for apiType 'ollama'.
C40_NoClassificationIsGenerate ==
    (apiType = "vl-classifier" /\ ~config.enableClassification) =>
        /\ reqCount["classify"] = 0
        /\ reqCount["rerank"] = 0
        /\ reqCount["tags"] = 0
        /\ reqCount["status"] = (IF pc = "idle" THEN 0 ELSE detectStatusProbes)
        /\ classifiedDocs = <<>>
        /\ path \in {"none", "generate"}
        /\ pc \in {"idle", "detect_status", "scoring", "done", "failed"}
        /\ (pc \in {"scoring", "done"} /\ config.n >= 1) => path = "generate"
        /\ pc = "scoring" =>
               /\ Len(promises) = Min(config.batchSize, config.n - promises[1])
               /\ \A k \in DOMAIN promises : task[promises[k]].calls >= 1
        /\ \A d \in DOMAIN task :
               /\ task[d].calls <= 3
               /\ task[d].st = "resolved" => task[d].calls = task[d].failures + 1
        /\ (pc = "done" /\ config.n >= 1) =>
               /\ Len(results) = config.n
               /\ \A k \in DOMAIN results :
                      /\ results[k].index = k - 1
                      /\ results[k].score = task[k - 1].score
               /\ reqCount["generate"] >= config.n
               /\ result = SeqMap(RankPolicy(results, config.threshold, config.topK),
                                  rerankedDoc)

\* C40 witness: with apiType 'vl-classifier' chosen by the user and
\* classification disabled, two documents were scored in two waves, one of
\* them on a retry, and returned.
C40_Witness ==
    /\ config.apiType = "vl-classifier"
    /\ ~config.enableClassification
    /\ pc = "done"
    /\ path = "generate"
    /\ config.batchSize = 1
    /\ Len(result) = 2
    /\ reqCount["generate"] = 3
    /\ reqCount["classify"] = 0

====
